---- MODULE Spec2Model ----
(***************************************************************************)
(* Model of the review-reply Dashboard (src/components/Dashboard.tsx) and  *)
(* the two services it calls (googleBusinessService, geminiService).       *)
(*                                                                         *)
(* One mounted Dashboard is modelled, from the state right after its mount *)
(* effect has started the first loadReviews.  Every await of the code is   *)
(* a suspension point: an operation is split into the step that starts it  *)
(* (the click handler, up to the await) and the step that resumes it (the  *)
(* service resolved or rejected).  User events are offered exactly where    *)
(* the rendered JSX offers them (button present and not disabled).          *)
(***************************************************************************)
EXTENDS Integers, Sequences, FiniteSets, Bags, TLC

(* ------------------------------ bounds ---------------------------------- *)
\* number of distinct reviews the remote source may return
MaxReviews == 2
\* number of service calls that may be awaiting their answer at once
MaxInflight == 2

(* ------------------------------ values ---------------------------------- *)
\* JavaScript null (processingId, error) and undefined (replyContent?)
Null == "<null>"
Undefined == "<undefined>"

\* resource names of the remote reviews (r.name)
Names == <<"reviews/1", "reviews/2", "reviews/3", "reviews/4">>
Ids == {Names[n] : n \in 1..MaxReviews}

\* geminiService: the text substituted for an empty response.text
FallbackReply == "Could not generate a reply. Please try again."
\* response.text values the generation service may answer with
ResponseTexts == {"", "Thanks so much!"}
\* what the user may type into the draft textarea
UserTexts == {"We are sorry."}
\* reply comments already present on the remote platform
RemoteReplies == {"Thank you (posted earlier)"}

\* the connected BusinessProfile (it carries the accessToken)
Profile == "profile"

\* a profile saved by an earlier session of the App
SavedProfile == "saved profile"

\* the 'businessProfile' entry of localStorage: absent (getItem gives null), or
\* a text that is the JSON of a value or is not JSON at all
NoEntry == [present |-> FALSE, json |-> FALSE, value |-> Null]
CorruptEntry == [present |-> TRUE, json |-> FALSE, value |-> Null]
\* JSON.stringify(value)
JsonStringify(value) == [present |-> TRUE, json |-> TRUE, value |-> value]

\* values of the tone and language selects (two of each enum) and their
\* useState initial values
Tones == {"Professional", "Friendly"}
Languages == {"Vietnamese", "English"}
DefaultTone == "Professional"
DefaultLanguage == "Vietnamese"

GenerationAlert == "AI Generation failed."
PostAlert == "Failed to post to Google. Check if your API quota is active or if CORS is blocking requests."
FetchError == "Failed to fetch reviews. Ensure API is enabled in GCP."

VARIABLES
  reviews,       \* useState<GoogleReview[]>       (Dashboard.tsx:20)
  loading,       \* useState(false)                (Dashboard.tsx:21)
  error,         \* useState<string | null>        (Dashboard.tsx:22)
  processingId,  \* useState<string | null>        (Dashboard.tsx:23)
  businessProfile, \* useState<BusinessProfile | null> (App.tsx:8)
  localStorage,  \* the 'businessProfile' entry of localStorage (App.tsx:12, 24, 29)
  tone,          \* useState<Tone>                 (Dashboard.tsx:26)
  language,      \* useState<Language>             (Dashboard.tsx:27)
  inflight,      \* bag of the service calls awaiting their answer
  cont,          \* autoGenerateAll resuming after `await generateReply(review)`
  lastEvent,     \* the handler step taken last (history, read by the properties)
  batchSelected  \* per running autoGenerateAll call, what was selected when it
                 \* was started (history, read by the properties)

vars ==
  <<reviews, loading, error, processingId, businessProfile, localStorage, tone, language,
    inflight, cont, lastEvent, batchSelected>>

(* --------------------------- pure functions ----------------------------- *)
\* ["ZERO", ..., "FIVE"].indexOf(r.starRating)
StarNames == <<"ZERO", "ONE", "TWO", "THREE", "FOUR", "FIVE">>

\* variant: an unknown name counts as no star
StarRatingIndexOrZero(s) ==
  IF \E i \in 1..Len(StarNames) : StarNames[i] = s
    THEN (CHOOSE i \in 1..Len(StarNames) : StarNames[i] = s) - 1
    ELSE 0

StarRatingIndex(s) ==
  IF \E i \in 1..Len(StarNames) : StarNames[i] = s
    THEN (CHOOSE i \in 1..Len(StarNames) : StarNames[i] = s) - 1
    ELSE -1

\* r.comment || "(No content)"
CommentOrDefault(c) == IF c = Undefined \/ c = "" THEN "(No content)" ELSE c

\* variant: the map ignores r.reviewReply
MapReviewIgnoresReply(r) ==
  [ id           |-> r.name,
    reviewerName |-> r.displayName,
    rating       |-> StarRatingIndex(r.starRating),
    content      |-> CommentOrDefault(r.comment),
    status       |-> "pending",
    replyContent |-> Undefined ]

\* one element of data.reviews.map(...)
MapReview(r) ==
  [ id           |-> r.name,
    reviewerName |-> r.displayName,
    rating       |-> StarRatingIndex(r.starRating),
    content      |-> CommentOrDefault(r.comment),
    status       |-> IF r.reviewReply.present THEN "replied" ELSE "pending",
    replyContent |-> IF r.reviewReply.present THEN r.reviewReply.comment
                                              ELSE Undefined ]

\* fetchGoogleReviews on an ok response: `if (!data.reviews) return []`, else the map
fetchGoogleReviews(data) ==
  IF ~data.hasReviews THEN <<>>
  ELSE [i \in 1..Len(data.reviews) |-> MapReview(data.reviews[i])]

\* generateReviewReply on a resolved call: response.text || fallback
generateReviewReply(responseText) ==
  IF responseText = Undefined \/ responseText = "" THEN FallbackReply
  ELSE responseText

\* review.replyContent || ''   (argument of postReply in the Post Reply button)
ContentOrEmpty(c) == IF c = Undefined \/ c = "" THEN "" ELSE c

(* ------------------------ the remote review source ---------------------- *)
\* fields of remote review n that do not vary in the model
RemoteStars == <<"FIVE", "ONE", "EXCELLENT", "FOUR">>
RemoteComments == <<"Great food!", "", "Slow service", "ok">>

NoReviewReply == [present |-> FALSE, comment |-> Undefined]

RawReview(n, reply) ==
  [ name        |-> Names[n],
    displayName |-> Names[n],
    starRating  |-> RemoteStars[n],
    comment     |-> RemoteComments[n],
    reviewReply |-> reply ]

RawReviews ==
  { RawReview(n, reply) :
      n \in 1..MaxReviews,
      reply \in {NoReviewReply} \cup {[present |-> TRUE, comment |-> c] : c \in RemoteReplies} }

RECURSIVE ReviewLists(_)
\* lists of at most n raw reviews with pairwise different names
ReviewLists(n) ==
  IF n = 0 THEN {<<>>}
  ELSE LET shorter == ReviewLists(n - 1)
       IN shorter \cup
          { Append(l, r) : l \in {s \in shorter : Len(s) = n - 1},
                           r \in RawReviews }

DistinctNames(l) == \A i, j \in 1..Len(l) : i # j => l[i].name # l[j].name

\* bodies of an ok response of GET .../reviews
FetchData ==
  {[hasReviews |-> FALSE, reviews |-> <<>>]} \cup
  {[hasReviews |-> TRUE, reviews |-> l] : l \in {x \in ReviewLists(MaxReviews) : DistinctNames(x)}}

(* ------------------------------ helpers --------------------------------- *)
Calls == BagToSet(inflight)
Started(op) == inflight (+) SetToBag({op})
Answered(op) == inflight (-) SetToBag({op})

\* variant: an id the list does not hold adds an element (f of the first one)
MapByIdOrAppend(rs, id, f) ==
  IF \E i \in 1..Len(rs) : rs[i].id = id
    THEN [i \in 1..Len(rs) |-> IF rs[i].id = id THEN f[rs[i]] ELSE rs[i]]
    ELSE IF rs = <<>> THEN rs ELSE Append(rs, f[rs[1]])

\* prev.map(r => r.id === id ? f(r) : r), f given as a function on the reviews
MapById(rs, id, f) == [i \in 1..Len(rs) |-> IF rs[i].id = id THEN f[rs[i]] ELSE rs[i]]
Elements(rs) == {rs[i] : i \in 1..Len(rs)}

IdsOf(rs) == {rs[i].id : i \in 1..Len(rs)}
HasItem(id) == id \in IdsOf(reviews)
Item(id) == reviews[CHOOSE i \in 1..Len(reviews) : reviews[i].id = id]

\* variant: the spread forgets replyContent
ApplyDraftStatusOnly(r, reply) == [r EXCEPT !.status = "drafted"]

\* variant: the spread forgets status
ApplyDraftTextOnly(r, reply) == [r EXCEPT !.replyContent = reply]

\* { ...r, status: 'drafted', replyContent: reply }
ApplyDraft(r, reply) == [r EXCEPT !.status = "drafted", !.replyContent = reply]

\* { ...r, status: 'replied' }
ApplyReplied(r) == [r EXCEPT !.status = "replied"]

\* { ...r, replyContent: text }
ApplyEdit(r, text) == [r EXCEPT !.replyContent = text]

IsPending(r) == r.status = "pending"
IsNotReplied(r) == r.status # "replied"

\* variant: the filter keeps every review not yet replied
NotRepliedReviews(rs) == SelectSeq(rs, IsNotReplied)

\* reviews.filter(r => r.status === 'pending')
PendingReviews(rs) == SelectSeq(rs, IsPending)

\* what generateReply reads of its argument: review.id and the three fields of
\* the request (reviewerName, rating, content)
Captured(r) ==
  [id |-> r.id, reviewerName |-> r.reviewerName, rating |-> r.rating, content |-> r.content]
CapturedAll(rs) == [i \in 1..Len(rs) |-> Captured(rs[i])]

\* what the generateReply of one render closes over: the businessProfile prop
\* and the tone and language of that render
Env == [businessProfile |-> businessProfile, tone |-> tone, language |-> language]
DefaultEnv == [businessProfile |-> Profile, tone |-> DefaultTone, language |-> DefaultLanguage]

\* a service call awaiting its answer.  For a generation, snap[k] is the review
\* generateReply was called with and env what that generateReply closes over;
\* bid > 0 names the running autoGenerateAll call whose loop made the call
\* (snap is then its pendingReviews), bid = 0 a click
LoadOp == [kind |-> "load", id |-> Null, content |-> "", snap |-> <<>>, k |-> 0, bid |-> 0]
GenOp(snap, k, bid, env) ==
  [kind |-> "gen", id |-> snap[k].id, content |-> "", snap |-> snap, k |-> k, bid |-> bid,
   env |-> env]
PostOp(reviewId, content) ==
  [kind |-> "post", id |-> reviewId, content |-> content, snap |-> <<>>, k |-> 0, bid |-> 0]

NoCont == [active |-> FALSE, snap |-> <<>>, k |-> 0, bid |-> 0, env |-> DefaultEnv]

\* the argument of generateReviewReply built by generateReply
Request(op) ==
  [ businessProfile |-> op.env.businessProfile,
    review |-> [ reviewerName |-> op.snap[op.k].reviewerName,
                 rating       |-> op.snap[op.k].rating,
                 content      |-> op.snap[op.k].content ],
    tone |-> op.env.tone,
    language |-> op.env.language ]

\* variant: generateReply rethrows from its catch block, ending the loop
ContOfRethrow(op, ok) ==
  IF op.bid > 0 /\ ok
    THEN [active |-> TRUE, snap |-> op.snap, k |-> op.k, bid |-> op.bid, env |-> op.env]
  ELSE NoCont

\* variant: after a failed generation the loop tries the same review again
ContOfRetry(op, ok) ==
  IF op.bid > 0
    THEN [active |-> TRUE, snap |-> op.snap, k |-> IF ok THEN op.k ELSE op.k - 1,
          bid |-> op.bid, env |-> op.env]
  ELSE NoCont

\* what `await generateReply(review)` returns to: the for-loop of autoGenerateAll
\* when the call came from it, nothing otherwise.  generateReply catches the
\* rejection, so it returns normally whether the generation succeeded (ok) or not.
\* The loop goes on calling the generateReply of the render it was started in
ContOf(op, ok) ==
  IF op.bid > 0
    THEN [active |-> TRUE, snap |-> op.snap, k |-> op.k, bid |-> op.bid, env |-> op.env]
  ELSE NoCont

\* a name for a starting autoGenerateAll call that no running one bears
FreeBid ==
  CHOOSE b \in 1..MaxInflight :
    /\ \A op \in Calls : op.bid # b
    /\ \A c \in 1..b - 1 : \E op \in Calls : op.bid = c

Event(type, id, text, alert, snap, k, bid) ==
  [type |-> type, id |-> id, text |-> text, alert |-> alert, snap |-> snap, k |-> k, bid |-> bid]

\* the list of review cards is rendered (not the spinner)
ListShown == ~loading
\* no continuation of a running handler is due before the next event
Idle == ~cont.active
Room == BagCardinality(inflight) < MaxInflight

(* ------------------------------- Init ----------------------------------- *)
\* a profile is connected and its Dashboard has just been mounted: useState
\* initial values, then the mount effect's loadReviews() up to its await
Init ==
  /\ reviews = <<>>
  /\ loading = TRUE
  /\ error = Null
  /\ processingId = Null
  /\ businessProfile = Profile
  /\ localStorage = JsonStringify(Profile)
  /\ tone = DefaultTone
  /\ language = DefaultLanguage
  /\ batchSelected = [b \in 1..MaxInflight |-> DefaultEnv]
  /\ inflight = SetToBag({LoadOp})
  /\ cont = NoCont
  /\ lastEvent = Event("mount", Null, "", "", <<>>, 0, 0)

(* ------------------------------ loading --------------------------------- *)
\* Retry button (rendered while error is set): loadReviews up to its await
loadReviews ==
  /\ Idle /\ Room
  /\ error # Null
  /\ loading' = TRUE
  /\ error' = Null
  /\ inflight' = Started(LoadOp)
  /\ lastEvent' = Event("loadStart", Null, "", "", <<>>, 0, 0)
  /\ UNCHANGED <<reviews, processingId, cont, businessProfile, tone, language, batchSelected, localStorage>>

\* fetchGoogleReviews resolved: setReviews(data); finally setLoading(false).
\* The event records the reviews of the response body the call answered with
loadReviewsResolved(op, data) ==
  /\ Idle
  /\ op \in Calls /\ op.kind = "load"
  /\ reviews' = fetchGoogleReviews(data)
  /\ loading' = FALSE
  /\ inflight' = Answered(op)
  /\ lastEvent' = Event("loadOk", Null, "", "", data.reviews, 0, 0)
  /\ UNCHANGED <<error, processingId, cont, businessProfile, tone, language, batchSelected, localStorage>>

\* variant: setLoading(false) ends the try block instead of sitting in finally
loadReviewsRejectedKeepsLoading(op) ==
  /\ Idle
  /\ op \in Calls /\ op.kind = "load"
  /\ error' = FetchError
  /\ inflight' = Answered(op)
  /\ lastEvent' = Event("loadFail", Null, "", "", <<>>, 0, 0)
  /\ UNCHANGED <<reviews, loading, processingId, cont, businessProfile, tone, language, batchSelected, localStorage>>

\* fetchGoogleReviews rejected: setError(e.message || ...); finally setLoading(false)
loadReviewsRejected(op) ==
  /\ Idle
  /\ op \in Calls /\ op.kind = "load"
  /\ error' = FetchError
  /\ loading' = FALSE
  /\ inflight' = Answered(op)
  /\ lastEvent' = Event("loadFail", Null, "", "", <<>>, 0, 0)
  /\ UNCHANGED <<reviews, processingId, cont, businessProfile, tone, language, batchSelected, localStorage>>

(* ----------------------------- generation ------------------------------- *)
\* the Generate AI Reply button of a pending card (disabled while processingId
\* is this review) or the Regenerate link of a drafted card (never disabled)
GenerateOffered(r) ==
  \/ r.status = "pending" /\ processingId # r.id
  \/ r.status = "drafted"

\* generateReply(review) up to its await
generateReply(i) ==
  /\ Idle /\ Room /\ ListShown
  /\ i \in 1..Len(reviews)
  /\ GenerateOffered(reviews[i])
  /\ processingId' = reviews[i].id
  /\ inflight' = Started(GenOp(<<Captured(reviews[i])>>, 1, 0, Env))
  /\ lastEvent' = Event("genStart", reviews[i].id, "", "", <<Captured(reviews[i])>>, 1, 0)
  /\ UNCHANGED <<reviews, loading, error, cont, businessProfile, tone, language, batchSelected, localStorage>>

\* generateReviewReply resolved: the setReviews of the try block, then finally
generateReplyResolved(op, responseText) ==
  /\ Idle
  /\ op \in Calls /\ op.kind = "gen"
  /\ LET reply == generateReviewReply(responseText)
         Draft == [r \in Elements(reviews) |-> ApplyDraft(r, reply)]
     IN /\ reviews' = MapById(reviews, op.id, Draft)
        /\ processingId' = Null
        /\ inflight' = Answered(op)
        /\ cont' = ContOf(op, TRUE)
        /\ lastEvent' = Event("genOk", op.id, reply, "", op.snap, op.k, op.bid)
  /\ UNCHANGED <<loading, error, businessProfile, tone, language, batchSelected, localStorage>>

\* variant: the catch block also resets the review
generateReplyRejectedClears(op) ==
  /\ Idle
  /\ op \in Calls /\ op.kind = "gen"
  /\ LET Reset == [r \in Elements(reviews) |->
                     [r EXCEPT !.status = "pending", !.replyContent = Undefined]]
     IN reviews' = MapById(reviews, op.id, Reset)
  /\ processingId' = Null
  /\ inflight' = Answered(op)
  /\ cont' = ContOf(op, FALSE)
  /\ lastEvent' = Event("genFail", op.id, "", GenerationAlert, op.snap, op.k, op.bid)
  /\ UNCHANGED <<loading, error, businessProfile, tone, language, batchSelected, localStorage>>

\* variant: setProcessingId(null) ends the try block instead of sitting in finally
generateReplyRejectedKeepsLock(op) ==
  /\ Idle
  /\ op \in Calls /\ op.kind = "gen"
  /\ inflight' = Answered(op)
  /\ cont' = ContOf(op, FALSE)
  /\ lastEvent' = Event("genFail", op.id, "", GenerationAlert, op.snap, op.k, op.bid)
  /\ UNCHANGED <<reviews, loading, error, processingId, businessProfile, tone, language, batchSelected, localStorage>>

\* generateReviewReply rejected: the catch block (alert), then finally
generateReplyRejected(op) ==
  /\ Idle
  /\ op \in Calls /\ op.kind = "gen"
  /\ processingId' = Null
  /\ inflight' = Answered(op)
  /\ cont' = ContOf(op, FALSE)
  /\ lastEvent' = Event("genFail", op.id, "", GenerationAlert, op.snap, op.k, op.bid)
  /\ UNCHANGED <<reviews, loading, error, businessProfile, tone, language, batchSelected, localStorage>>

\* variant: the loop does not await, every generateReply call starts at once
autoGenerateAllParallel ==
  /\ Idle
  /\ LET pendingReviews == CapturedAll(PendingReviews(reviews))
         bid == FreeBid
     IN IF pendingReviews = <<>>
        THEN /\ lastEvent' = Event("batchDone", Null, "", "", <<>>, 0, 0)
             /\ UNCHANGED <<processingId, inflight, batchSelected>>
        ELSE /\ BagCardinality(inflight) + Len(pendingReviews) <= MaxInflight
             /\ processingId' = pendingReviews[Len(pendingReviews)].id
             /\ inflight' = inflight (+)
                  SetToBag({GenOp(pendingReviews, k, bid, Env) : k \in 1..Len(pendingReviews)})
             /\ batchSelected' = [batchSelected EXCEPT ![bid] = Env]
             /\ lastEvent' = Event("batchStart", pendingReviews[1].id, "", "", pendingReviews, 1, bid)
  /\ UNCHANGED <<reviews, loading, error, cont, businessProfile, tone, language, localStorage>>

\* Auto-Draft All button (never disabled): the filter, then the first iteration
\* of the loop up to the await inside generateReply
autoGenerateAll ==
  /\ Idle
  /\ LET pendingReviews == CapturedAll(PendingReviews(reviews))
     IN IF pendingReviews = <<>>
        THEN /\ lastEvent' = Event("batchDone", Null, "", "", <<>>, 0, 0)
             /\ UNCHANGED <<processingId, inflight, batchSelected>>
        ELSE /\ Room
             /\ processingId' = pendingReviews[1].id
             /\ inflight' = Started(GenOp(pendingReviews, 1, FreeBid, Env))
             /\ batchSelected' = [batchSelected EXCEPT ![FreeBid] = Env]
             /\ lastEvent' = Event("batchStart", pendingReviews[1].id, "", "", pendingReviews, 1, FreeBid)
  /\ UNCHANGED <<reviews, loading, error, cont, businessProfile, tone, language, localStorage>>

\* variant: every iteration calls the generateReply of the latest render
autoGenerateAllResumeLatestRender ==
  /\ cont.active
  /\ cont' = NoCont
  /\ IF cont.k < Len(cont.snap)
     THEN /\ processingId' = cont.snap[cont.k + 1].id
          /\ inflight' = Started(GenOp(cont.snap, cont.k + 1, cont.bid, Env))
          /\ lastEvent' = Event("batchNext", cont.snap[cont.k + 1].id, "", "", cont.snap, cont.k + 1, cont.bid)
          /\ UNCHANGED batchSelected
     ELSE /\ lastEvent' = Event("batchDone", Null, "", "", cont.snap, cont.k, cont.bid)
          /\ batchSelected' = [batchSelected EXCEPT ![cont.bid] = DefaultEnv]
          /\ UNCHANGED <<processingId, inflight>>
  /\ UNCHANGED <<reviews, loading, error, businessProfile, tone, language, localStorage>>

\* the for-loop of autoGenerateAll after `await generateReply(review)` returned:
\* the next iteration up to its await, or the end of the loop
autoGenerateAllResume ==
  /\ cont.active
  /\ cont' = NoCont
  /\ IF cont.k < Len(cont.snap)
     THEN /\ processingId' = cont.snap[cont.k + 1].id
          /\ inflight' = Started(GenOp(cont.snap, cont.k + 1, cont.bid, cont.env))
          /\ lastEvent' = Event("batchNext", cont.snap[cont.k + 1].id, "", "", cont.snap, cont.k + 1, cont.bid)
          /\ UNCHANGED batchSelected
     ELSE /\ lastEvent' = Event("batchDone", Null, "", "", cont.snap, cont.k, cont.bid)
          /\ batchSelected' = [batchSelected EXCEPT ![cont.bid] = DefaultEnv]
          /\ UNCHANGED <<processingId, inflight>>
  /\ UNCHANGED <<reviews, loading, error, businessProfile, tone, language, localStorage>>

(* ------------------------------ publishing ------------------------------ *)
\* the Post Reply button: rendered on a drafted card, disabled while
\* processingId is this review
PostOffered(r) == r.status = "drafted" /\ processingId # r.id

\* postReply(review.id, review.replyContent || '') up to its await
postReply(i) ==
  /\ Idle /\ Room /\ ListShown
  /\ i \in 1..Len(reviews)
  /\ PostOffered(reviews[i])
  /\ processingId' = reviews[i].id
  /\ inflight' = Started(PostOp(reviews[i].id, ContentOrEmpty(reviews[i].replyContent)))
  /\ lastEvent' = Event("postStart", reviews[i].id, ContentOrEmpty(reviews[i].replyContent), "", <<>>, 0, 0)
  /\ UNCHANGED <<reviews, loading, error, cont, businessProfile, tone, language, batchSelected, localStorage>>

\* postReplyToGoogle resolved: the setReviews of the try block, then finally
postReplyResolved(op) ==
  /\ Idle
  /\ op \in Calls /\ op.kind = "post"
  /\ reviews' = MapById(reviews, op.id, [r \in Elements(reviews) |-> ApplyReplied(r)])
  /\ processingId' = Null
  /\ inflight' = Answered(op)
  /\ lastEvent' = Event("postOk", op.id, op.content, "", <<>>, 0, 0)
  /\ UNCHANGED <<loading, error, cont, businessProfile, tone, language, batchSelected, localStorage>>

\* variant: the catch block discards the draft
postReplyRejectedRollsBack(op) ==
  /\ Idle
  /\ op \in Calls /\ op.kind = "post"
  /\ LET Reset == [r \in Elements(reviews) |->
                     [r EXCEPT !.status = "pending", !.replyContent = Undefined]]
     IN reviews' = MapById(reviews, op.id, Reset)
  /\ processingId' = Null
  /\ inflight' = Answered(op)
  /\ lastEvent' = Event("postFail", op.id, op.content, PostAlert, <<>>, 0, 0)
  /\ UNCHANGED <<loading, error, cont, businessProfile, tone, language, batchSelected, localStorage>>

\* postReplyToGoogle rejected: the catch block (alert), then finally
postReplyRejected(op) ==
  /\ Idle
  /\ op \in Calls /\ op.kind = "post"
  /\ processingId' = Null
  /\ inflight' = Answered(op)
  /\ lastEvent' = Event("postFail", op.id, op.content, PostAlert, <<>>, 0, 0)
  /\ UNCHANGED <<reviews, loading, error, cont, businessProfile, tone, language, batchSelected, localStorage>>

(* ------------------------------- editing -------------------------------- *)
\* variant: the textarea is rendered on every card
EditOfferedOnEveryCard(r) == r.status \in {"pending", "drafted", "replied"}

\* the draft textarea is rendered on a drafted card only
EditOffered(r) == r.status = "drafted"

\* handleReplyChange(review.id, e.target.value)
handleReplyChange(i, text) ==
  /\ Idle /\ ListShown
  /\ i \in 1..Len(reviews)
  /\ EditOffered(reviews[i])
  /\ LET Edit == [r \in Elements(reviews) |-> ApplyEdit(r, text)]
     IN reviews' = MapById(reviews, reviews[i].id, Edit)
  /\ lastEvent' = Event("edit", reviews[i].id, text, "", <<>>, 0, 0)
  /\ UNCHANGED <<loading, error, processingId, inflight, cont, businessProfile, tone, language, batchSelected, localStorage>>

(* ------------------------------- Next ----------------------------------- *)
Next ==
  \/ loadReviews
  \/ \E op \in Calls, data \in FetchData : loadReviewsResolved(op, data)
  \/ \E op \in Calls : loadReviewsRejected(op)
  \/ \E i \in 1..Len(reviews) : generateReply(i)
  \/ \E op \in Calls, t \in ResponseTexts : generateReplyResolved(op, t)
  \/ \E op \in Calls : generateReplyRejected(op)
  \/ autoGenerateAll
  \/ autoGenerateAllResume
  \/ \E i \in 1..Len(reviews) : postReply(i)
  \/ \E op \in Calls : postReplyResolved(op)
  \/ \E op \in Calls : postReplyRejected(op)
  \/ \E i \in 1..Len(reviews), text \in UserTexts : handleReplyChange(i, text)

Spec == Init /\ [][Next]_vars

(* ------------------------------ fairness -------------------------------- *)
\* the generation call made by the loop of autoGenerateAll call b is answered
BatchCallAnswered(b) ==
  \E op \in Calls :
    /\ op.bid = b
    /\ \/ \E t \in ResponseTexts : generateReplyResolved(op, t)
       \/ generateReplyRejected(op)

\* the continuation of an await runs once the awaited promise is settled, and
\* every generation call of a batch is answered in the end
SpecLive ==
  /\ Spec
  /\ WF_vars(autoGenerateAllResume)
  /\ \A b \in 1..MaxInflight : SF_vars(BatchCallAnswered(b))

(* ------------------------ tone and language ----------------------------- *)
\* onChange of the tone select: setTone(e.target.value)
setTone(t) ==
  /\ Idle
  /\ t # tone
  /\ tone' = t
  /\ lastEvent' = Event("setTone", Null, t, "", <<>>, 0, 0)
  /\ UNCHANGED <<reviews, loading, error, processingId, businessProfile, language,
                 inflight, cont, batchSelected, localStorage>>

\* onChange of the language select: setLanguage(e.target.value)
setLanguage(l) ==
  /\ Idle
  /\ l # language
  /\ language' = l
  /\ lastEvent' = Event("setLanguage", Null, l, "", <<>>, 0, 0)
  /\ UNCHANGED <<reviews, loading, error, processingId, businessProfile, tone,
                 inflight, cont, batchSelected, localStorage>>

NextSettings ==
  \/ Next
  \/ \E t \in Tones : setTone(t)
  \/ \E l \in Languages : setLanguage(l)

\* the Dashboard with its tone and language selects in use
SpecSettings == Init /\ [][NextSettings]_vars

(* ----------------- postReply called by any caller ---------------------- *)
\* postReply(reviewId, content) up to its await, called with any review id,
\* whatever the status of the review and whether or not the store holds it:
\* the function reads neither the store nor processingId, so every statement
\* of it runs as for a drafted review
postReplyAnyCaller(reviewId) ==
  /\ Idle /\ Room /\ ListShown
  /\ LET content == IF HasItem(reviewId) THEN ContentOrEmpty(Item(reviewId).replyContent)
                    ELSE ""
     IN /\ inflight' = Started(PostOp(reviewId, content))
        /\ lastEvent' = Event("postStart", reviewId, content, "", <<>>, 0, 0)
  /\ processingId' = reviewId
  /\ UNCHANGED <<reviews, loading, error, cont, businessProfile, tone, language, batchSelected, localStorage>>

NextAnyCaller ==
  \/ Next
  \/ \E reviewId \in Ids : postReplyAnyCaller(reviewId)

\* the Dashboard with postReply callable for every review id
SpecAnyCaller == Init /\ [][NextAnyCaller]_vars

(* ------------------- loads over every starRating ------------------------ *)
\* values of r.starRating in a response: the six names of the array, the
\* platform's STAR_RATING_UNSPECIFIED, names the array does not hold, and a
\* review without the field
StarRatings ==
  {"ZERO", "ONE", "TWO", "THREE", "FOUR", "FIVE",
   "STAR_RATING_UNSPECIFIED", "EXCELLENT", "five", Undefined}

RatedReview(n, star) == [RawReview(n, NoReviewReply) EXCEPT !.starRating = star]

\* response bodies of one or two reviews with any starRating
RatedFetchData ==
  {[hasReviews |-> TRUE, reviews |-> <<RatedReview(n, s)>>] :
      n \in 1..MaxReviews, s \in StarRatings} \cup
  {[hasReviews |-> TRUE, reviews |-> <<RatedReview(n, s), RatedReview(m, t)>>] :
      n \in 1..MaxReviews, m \in 2..MaxReviews, s \in StarRatings, t \in StarRatings}

NextRated ==
  \E op \in Calls, data \in {d \in RatedFetchData : DistinctNames(d.reviews)} :
    loadReviewsResolved(op, data)

\* the first load of the Dashboard answered with reviews of any starRating
SpecRated == Init /\ [][NextRated]_vars

(* ----------------------- connect and disconnect ------------------------- *)
\* App renders the Dashboard while a profile is set, BusinessConfig otherwise
Mounted == businessProfile # Null

\* a call made by a Dashboard that has been unmounted since: the call and the
\* async function awaiting it go on, the state setters of that Dashboard no
\* longer have any effect
GoneKind ==
  [load |-> "loadGone", gen |-> "genGone", post |-> "postGone",
   loadGone |-> "loadGone", genGone |-> "genGone", postGone |-> "postGone"]
Gone(op) == [op EXCEPT !.kind = GoneKind[op.kind]]

\* Disconnect button of the Dashboard (onLogout): setBusinessProfile(null) and
\* localStorage.removeItem;
\* the Dashboard is unmounted and its state discarded
handleDisconnect ==
  /\ Idle
  /\ Mounted
  /\ businessProfile' = Null
  /\ localStorage' = NoEntry
  /\ reviews' = <<>>
  /\ loading' = FALSE
  /\ error' = Null
  /\ processingId' = Null
  /\ inflight' = BagOfAll(Gone, inflight)
  /\ lastEvent' = Event("disconnect", Null, "", "", <<>>, 0, 0)
  /\ tone' = DefaultTone
  /\ language' = DefaultLanguage
  /\ UNCHANGED <<cont, batchSelected>>

\* onConnect of BusinessConfig (rendered while no profile is set, used after
\* the mount effect of the App has run): setBusinessProfile(profile) and
\* localStorage.setItem with the JSON of the profile; a new Dashboard is
\* mounted and its mount effect starts loadReviews
handleConnectProfile ==
  /\ Idle /\ Room
  /\ ~Mounted
  /\ lastEvent.type # "appMount"
  /\ businessProfile' = Profile
  /\ localStorage' = JsonStringify(Profile)
  /\ loading' = TRUE
  /\ inflight' = Started(LoadOp)
  /\ lastEvent' = Event("mount", Null, "", "", <<>>, 0, 0)
  /\ UNCHANGED <<reviews, error, processingId, cont, tone, language, batchSelected>>

\* the answer, success or failure, to a fetch or a publish of an unmounted
\* Dashboard: setReviews, setError, setLoading, setProcessingId do nothing
unmountedAnswered(op) ==
  /\ Idle
  /\ op \in Calls /\ op.kind \in {"loadGone", "postGone"}
  /\ inflight' = Answered(op)
  /\ lastEvent' = Event("goneAnswer", op.id, "", "", <<>>, 0, 0)
  /\ UNCHANGED <<reviews, loading, error, processingId, businessProfile, cont, tone, language, batchSelected, localStorage>>

\* the answer, success or failure, to a generation of an unmounted Dashboard:
\* generateReply returns and, when autoGenerateAll awaited it, the for-loop
\* goes on with its next pending review up to the await inside generateReply
unmountedGenerateAnswered(op) ==
  /\ Idle
  /\ op \in Calls /\ op.kind = "genGone"
  /\ IF op.bid > 0 /\ op.k < Len(op.snap)
     THEN /\ inflight' = Answered(op) (+) SetToBag({Gone(GenOp(op.snap, op.k + 1, op.bid, op.env))})
          /\ lastEvent' = Event("batchNext", op.snap[op.k + 1].id, "", "", op.snap, op.k + 1, op.bid)
     ELSE /\ inflight' = Answered(op)
          /\ lastEvent' = Event("goneAnswer", op.id, "", "", op.snap, op.k, op.bid)
  /\ UNCHANGED <<reviews, loading, error, processingId, businessProfile, cont, tone, language, batchSelected, localStorage>>

\* the handlers of the Dashboard are reachable while it is rendered
NextSession ==
  \/ Mounted /\ loadReviews
  \/ Mounted /\ \E op \in Calls, data \in FetchData : loadReviewsResolved(op, data)
  \/ Mounted /\ \E op \in Calls : loadReviewsRejected(op)
  \/ Mounted /\ \E i \in 1..Len(reviews) : generateReply(i)
  \/ Mounted /\ \E op \in Calls, t \in ResponseTexts : generateReplyResolved(op, t)
  \/ Mounted /\ \E op \in Calls : generateReplyRejected(op)
  \/ Mounted /\ autoGenerateAll
  \/ Mounted /\ autoGenerateAllResume
  \/ Mounted /\ \E i \in 1..Len(reviews) : postReply(i)
  \/ Mounted /\ \E op \in Calls : postReplyResolved(op)
  \/ Mounted /\ \E op \in Calls : postReplyRejected(op)
  \/ Mounted /\ \E i \in 1..Len(reviews), text \in UserTexts : handleReplyChange(i, text)
  \/ handleDisconnect
  \/ handleConnectProfile
  \/ \E op \in Calls : unmountedAnswered(op)
  \/ \E op \in Calls : unmountedGenerateAnswered(op)

\* the App: Dashboards mounted and unmounted as the profile is connected and
\* disconnected
SpecSession == Init /\ [][NextSession]_vars

(* -------------------------- the App from its mount ---------------------- *)
\* what localStorage may hold when the App is opened: nothing, the JSON of a
\* profile an earlier session saved, the JSON text null, or a text that is
\* not JSON
StoredEntries ==
  {NoEntry, CorruptEntry, JsonStringify(Null),
   JsonStringify(Profile), JsonStringify(SavedProfile)}

\* useState(null) of the App and the first render, before its mount effect
InitApp ==
  /\ reviews = <<>>
  /\ loading = FALSE
  /\ error = Null
  /\ processingId = Null
  /\ businessProfile = Null
  /\ localStorage \in StoredEntries
  /\ tone = DefaultTone
  /\ language = DefaultLanguage
  /\ batchSelected = [b \in 1..MaxInflight |-> DefaultEnv]
  /\ inflight = EmptyBag
  /\ cont = NoCont
  /\ lastEvent = Event("appMount", Null, "", "", <<>>, 0, 0)

\* the mount effect of the App: getItem; when there is an entry,
\* setBusinessProfile(JSON.parse(entry)), a text that does not parse being
\* logged and left where it is.  A restored profile mounts the Dashboard,
\* whose mount effect starts loadReviews
restoreProfile ==
  /\ lastEvent.type = "appMount"
  /\ lastEvent' = Event("restore", Null, "", "", <<>>, 0, 0)
  /\ IF localStorage.present /\ localStorage.json /\ localStorage.value # Null
     THEN /\ businessProfile' = localStorage.value
          /\ loading' = TRUE
          /\ inflight' = Started(LoadOp)
     ELSE UNCHANGED <<businessProfile, loading, inflight>>
  /\ UNCHANGED <<reviews, error, processingId, localStorage, tone, language, cont, batchSelected>>

NextApp ==
  \/ restoreProfile
  \/ NextSession

\* the App from the moment it is opened
SpecApp == InitApp /\ [][NextApp]_vars

(* ------------------------------ properties ------------------------------ *)
SnapIds(snap) == {snap[j].id : j \in 1..Len(snap)}
\* the number of generate and publish calls awaiting their answer
AsyncInFlight == BagCardinality(inflight) - CopiesIn(LoadOp, inflight)
\* the last step was the answer to a generation made by an autoGenerateAll loop
BatchAnswer(e) == e.type \in {"genOk", "genFail"} /\ e.bid > 0

C2_RepliedIsAbsorbing ==
  [][ lastEvent'.type # "loadOk" =>
        \A i \in 1..Len(reviews) :
          reviews[i].status = "replied" =>
            /\ Len(reviews') = Len(reviews)
            /\ reviews'[i].status = "replied" ]_vars

\* C3: at most one generation or publish call awaits its answer at any instant
C3_SingleOperationInFlight == AsyncInFlight <= 1

C5_BatchIsSequential ==
  /\ [] ( /\ \A op1, op2 \in Calls : (op1.bid > 0 /\ op1.bid = op2.bid) => op1 = op2
          /\ \A op \in Calls : op.bid > 0 => CopiesIn(op, inflight) = 1
          /\ cont.active => \A op \in Calls : op.bid # cont.bid
          /\ lastEvent.type = "batchStart" => lastEvent.k = 1 )
  /\ [][ lastEvent'.type = "batchNext" =>
           /\ BatchAnswer(lastEvent)
           /\ lastEvent'.bid = lastEvent.bid
           /\ lastEvent'.snap = lastEvent.snap
           /\ lastEvent'.k = lastEvent.k + 1 ]_vars

\* the second call of a batch has just been started, the first being answered
C5_Witness ==
  /\ lastEvent.type = "batchNext" /\ lastEvent.k = 2
  /\ \E op \in Calls : op.bid = lastEvent.bid /\ op.k = 2

\* C6: the snapshot of draftAll is exactly the reviews pending when it is
\* called, in store order; every call of the batch is for a snapshot item, the
\* snapshot is never recomputed, and no step of the batch changes a review
\* outside the snapshot
C6_BatchTouchesOnlySnapshot ==
  /\ [] ( /\ lastEvent.type = "batchStart" =>
               /\ \A i \in 1..Len(reviews) :
                    reviews[i].status = "pending" <=> reviews[i].id \in SnapIds(lastEvent.snap)
               /\ Cardinality(SnapIds(lastEvent.snap)) = Len(lastEvent.snap)
               /\ \A a, b \in 1..Len(lastEvent.snap) :
                    a < b => \E i, j \in 1..Len(reviews) :
                               /\ i < j
                               /\ reviews[i].id = lastEvent.snap[a].id
                               /\ reviews[j].id = lastEvent.snap[b].id
          /\ (lastEvent.type = "batchDone" /\ lastEvent.snap = <<>>) =>
               \A i \in 1..Len(reviews) : reviews[i].status # "pending"
          /\ \A op \in Calls : op.bid > 0 =>
               /\ op.k \in 1..Len(op.snap)
               /\ op.id = op.snap[op.k].id )
  /\ [][ /\ (lastEvent'.bid > 0 /\ lastEvent'.type # "batchStart") =>
              /\ Len(reviews') = Len(reviews)
              /\ \A i \in 1..Len(reviews) :
                   reviews[i].id \notin SnapIds(lastEvent'.snap) => reviews'[i] = reviews[i]
         /\ cont.active => lastEvent'.snap = cont.snap ]_vars

\* a batch whose snapshot held one of the two reviews ended, and the review that
\* was not pending when it started is still as it was: drafted, with the user's text
C6_Witness ==
  /\ lastEvent.type = "batchDone" /\ Len(lastEvent.snap) = 1 /\ Len(reviews) = 2
  /\ \E i \in 1..Len(reviews) :
       /\ reviews[i].id \notin SnapIds(lastEvent.snap)
       /\ reviews[i].status = "drafted" /\ reviews[i].replyContent \in UserTexts

\* C7: when a generation succeeds with text t (the service's text, or the
\* fallback text for an empty one) the review it was started on is drafted with
\* replyContent t, and processingId is null
C7_GenerateSuccessDrafts ==
  lastEvent.type = "genOk" =>
    /\ lastEvent.text \in {generateReviewReply(t) : t \in ResponseTexts}
    /\ HasItem(lastEvent.id)
    /\ Item(lastEvent.id).status = "drafted"
    /\ Item(lastEvent.id).replyContent = lastEvent.text
    /\ processingId = Null

\* a generation started from a click has just succeeded with the service's text
C7_Witness ==
  /\ lastEvent.type = "genOk" /\ lastEvent.bid = 0
  /\ HasItem(lastEvent.id)
  /\ Item(lastEvent.id).replyContent = "Thanks so much!"
  /\ processingId = Null

\* C8: when a generation fails no review changes (a pending review stays
\* pending without replyContent, a draft keeps its text), the failure is
\* alerted and processingId is null
C8_GenerateFailureChangesNothing ==
  [][ lastEvent'.type = "genFail" =>
        /\ reviews' = reviews
        /\ lastEvent'.alert = GenerationAlert
        /\ processingId' = Null ]_vars

\* the regeneration of an edited draft has just failed and the draft is intact
C8_Witness ==
  /\ lastEvent.type = "genFail"
  /\ HasItem(lastEvent.id)
  /\ Item(lastEvent.id).status = "drafted"
  /\ Item(lastEvent.id).replyContent \in UserTexts
  /\ processingId = Null

\* C9: after a successful publish the review is replied and its replyContent
\* is the text that was sent
C9_PublishedTextIsStored ==
  lastEvent.type = "postOk" =>
    /\ HasItem(lastEvent.id)
    /\ Item(lastEvent.id).status = "replied"
    /\ Item(lastEvent.id).replyContent = lastEvent.text

\* C10: publish sends the draft text of a drafted review; when it fails no
\* review changes, the failure is alerted, processingId is null and the Post
\* Reply button of the still drafted review is offered again
C10_PublishFailureKeepsDraft ==
  /\ [] ( /\ lastEvent.type = "postStart" =>
               /\ HasItem(lastEvent.id)
               /\ Item(lastEvent.id).status = "drafted"
               /\ Item(lastEvent.id).replyContent = lastEvent.text
          /\ (lastEvent.type = "postFail" /\ HasItem(lastEvent.id)
                /\ Item(lastEvent.id).status = "drafted") =>
               /\ PostOffered(Item(lastEvent.id))
               /\ Idle /\ Room /\ ListShown )
  /\ [][ lastEvent'.type = "postFail" =>
           /\ reviews' = reviews
           /\ lastEvent'.alert = PostAlert
           /\ processingId' = Null ]_vars

\* the publish of an edited draft has just failed: the review is drafted and
\* still holds the text that was submitted
C10_Witness ==
  /\ lastEvent.type = "postFail"
  /\ HasItem(lastEvent.id)
  /\ Item(lastEvent.id).status = "drafted"
  /\ lastEvent.text \in UserTexts
  /\ Item(lastEvent.id).replyContent = lastEvent.text

\* C11: a publish call is started for a review of the store only when the
\* review is drafted: postReply called for a pending or replied review sends
\* nothing to the remote source
C11_PublishNeedsDraft ==
  \A op \in Calls :
    (op.kind = "post" /\ lastEvent.type = "postStart" /\ lastEvent.id = op.id
       /\ HasItem(op.id)) =>
      Item(op.id).status = "drafted"

\* C12: when the fetch of a load fails the store is left as it was before the
\* step, the error message is set and the loading flag is cleared
C12_LoadFailureKeepsStore ==
  [][ lastEvent'.type = "loadFail" =>
        /\ reviews' = reviews
        /\ error' = FetchError
        /\ loading' = FALSE ]_vars

\* a load has just failed: the error banner with Retry is shown, not the spinner
C12_Witness ==
  /\ lastEvent.type = "loadFail"
  /\ error = FetchError
  /\ ~loading
  /\ inflight = EmptyBag

\* C13: after a successful load the store holds exactly one review per review
\* of the response, in the order of the response and nothing else; a review is
\* replied with the source's reply text when the source has a reply for it,
\* pending without replyContent otherwise
C13_LoadReplacesStore ==
  lastEvent.type = "loadOk" =>
    /\ Len(reviews) = Len(lastEvent.snap)
    /\ \A i \in 1..Len(lastEvent.snap) :
         /\ reviews[i].id = lastEvent.snap[i].name
         /\ reviews[i].status =
              IF lastEvent.snap[i].reviewReply.present THEN "replied" ELSE "pending"
         /\ reviews[i].replyContent =
              IF lastEvent.snap[i].reviewReply.present
                THEN lastEvent.snap[i].reviewReply.comment
                ELSE Undefined
    /\ ~loading

\* a load answered with review 2 (already replied on the platform) before
\* review 1 (not replied): the store holds them in that order
C13_Witness ==
  /\ lastEvent.type = "loadOk"
  /\ Len(reviews) = 2
  /\ reviews[1].id = Names[2] /\ reviews[1].status = "replied"
  /\ reviews[1].replyContent \in RemoteReplies
  /\ reviews[2].id = Names[1] /\ reviews[2].status = "pending"
  /\ reviews[2].replyContent = Undefined

\* C14: a loaded review's rating is 0..5 for the starRating ZERO..FIVE and -1
\* for every other value, and a load whose response holds such a value
\* succeeds with one review per review of the response
C14_StarRatingMapping ==
  lastEvent.type = "loadOk" =>
    /\ error = Null
    /\ Len(reviews) = Len(lastEvent.snap)
    /\ \A i \in 1..Len(lastEvent.snap) :
         LET star == lastEvent.snap[i].starRating
             rating == reviews[i].rating
         IN /\ reviews[i].id = lastEvent.snap[i].name
            /\ star = "ZERO" => rating = 0
            /\ star = "ONE" => rating = 1
            /\ star = "TWO" => rating = 2
            /\ star = "THREE" => rating = 3
            /\ star = "FOUR" => rating = 4
            /\ star = "FIVE" => rating = 5
            /\ star \notin {"ZERO", "ONE", "TWO", "THREE", "FOUR", "FIVE"} => rating = -1

\* a load answered with a review rated FOUR after a review whose starRating
\* is not a name of the array: both are in the store, rated -1 and 4
C14_Witness ==
  /\ lastEvent.type = "loadOk"
  /\ Len(reviews) = 2
  /\ lastEvent.snap[1].starRating = "STAR_RATING_UNSPECIFIED"
  /\ reviews[1].rating = -1
  /\ lastEvent.snap[2].starRating = "FOUR"
  /\ reviews[2].rating = 4

\* a report of a finished batch: how many reviews it attempted, how many failed
CountsReport(attempted, failed) ==
  ToString(attempted) \o " attempted, " \o ToString(failed) \o " failed"

\* C15: when the loop of draftAll has ended over a snapshot of N reviews, the
\* step that ends it reports N attempted and the number of failed calls
C15_DraftAllReportsCounts ==
  (lastEvent.type = "batchDone" /\ lastEvent.snap # <<>>) =>
    \E failed \in 0..Len(lastEvent.snap) :
      \/ lastEvent.text = CountsReport(Len(lastEvent.snap), failed)
      \/ lastEvent.alert = CountsReport(Len(lastEvent.snap), failed)

\* C16: an empty text from the generation service is a failed generation: a
\* generation counts as succeeded, and drafts its review, only with a
\* non-empty text the service answered with
C16_EmptyResultIsFailure ==
  lastEvent.type = "genOk" =>
    /\ lastEvent.text \in {t \in ResponseTexts : t # ""}
    /\ HasItem(lastEvent.id) => Item(lastEvent.id).replyContent # FallbackReply

\* the steps that start a call to the remote review source or to the generator
CallStarts == {"mount", "loadStart", "genStart", "batchStart", "batchNext", "postStart"}

\* C17: a fetch, publish or generation call is started only while a profile is
\* connected, the calls of a running draftAll loop included
C17_CallsOnlyWhileConnected ==
  lastEvent.type \in CallStarts => businessProfile # Null

\* C18: whenever no generation and no publish call awaits its answer,
\* processingId is null
C18_LockReleasedWhenNothingInFlight ==
  AsyncInFlight = 0 => processingId = Null

\* the regeneration of a draft has just failed (the catch path), no call is in
\* flight any more and processingId is null
C18_Witness ==
  /\ lastEvent.type = "genFail"
  /\ AsyncInFlight = 0
  /\ processingId = Null
  /\ HasItem(lastEvent.id) /\ Item(lastEvent.id).status = "drafted"

\* C19: an edit is addressed to a drafted review only and sets its
\* replyContent to the typed text; it changes no review's status, and no
\* pending or replied review's replyContent
C19_EditOnlyChangesDraftText ==
  [][ lastEvent'.type = "edit" =>
        /\ Len(reviews') = Len(reviews)
        /\ \A i \in 1..Len(reviews) :
             /\ reviews'[i].status = reviews[i].status
             /\ reviews[i].id = lastEvent'.id =>
                  /\ reviews[i].status = "drafted"
                  /\ reviews'[i].replyContent = lastEvent'.text
             /\ reviews[i].status # "drafted" =>
                  reviews'[i].replyContent = reviews[i].replyContent ]_vars

\* a draft has just been edited beside a pending review: the draft holds the
\* typed text and is still drafted, the pending review has no replyContent
C19_Witness ==
  /\ lastEvent.type = "edit"
  /\ \E i, j \in 1..Len(reviews) :
       /\ reviews[i].id = lastEvent.id
       /\ reviews[i].status = "drafted"
       /\ reviews[i].replyContent = lastEvent.text
       /\ lastEvent.text \in UserTexts
       /\ reviews[j].status = "pending"
       /\ reviews[j].replyContent = Undefined

\* the steps of generate, publish and edit that write to the store or give up
StoreSteps == {"genOk", "genFail", "postOk", "postFail", "edit"}

\* C20: a generate, publish or edit step changes at most the review whose id
\* is the target id, and of that review only status and replyContent: number
\* and order of the reviews and every review's id, reviewerName, rating and
\* content stay as they were; with a target id the store does not hold, the
\* store stays as it was
C20_MutationTouchesOnlyTarget ==
  [][ lastEvent'.type \in StoreSteps =>
        /\ Len(reviews') = Len(reviews)
        /\ \A i \in 1..Len(reviews) :
             /\ reviews'[i].id = reviews[i].id
             /\ reviews'[i].reviewerName = reviews[i].reviewerName
             /\ reviews'[i].rating = reviews[i].rating
             /\ reviews'[i].content = reviews[i].content
             /\ reviews[i].id # lastEvent'.id => reviews'[i] = reviews[i]
        /\ lastEvent'.id \notin IdsOf(reviews) => reviews' = reviews ]_vars

\* the second review has just been drafted by a generation; the first one,
\* drafted and edited before, still holds the typed text, and both reviews
\* are where and what the load made them
C20_Witness ==
  /\ lastEvent.type = "genOk"
  /\ Len(reviews) = 2
  /\ reviews[2].id = lastEvent.id
  /\ reviews[2].status = "drafted" /\ reviews[2].replyContent = lastEvent.text
  /\ reviews[1].status = "drafted" /\ reviews[1].replyContent \in UserTexts
  /\ reviews[1].id = Names[2] /\ reviews[1].rating = StarRatingIndex(RemoteStars[2])
  /\ reviews[2].id = Names[1] /\ reviews[2].rating = StarRatingIndex(RemoteStars[1])

\* C21: while a generation or a publish call for a review awaits its answer,
\* processingId is the id of that review
C21_LockHeldWhileInFlight ==
  \A op \in Calls : op.kind \in {"gen", "post"} => processingId = op.id

\* C22: every generation request made by the loop of one autoGenerateAll call
\* carries the tone, the language and the business profile selected when that
\* call was started, whatever is selected now, and the reviewerName, rating
\* and content of its snapshot review, which are those of the stored review
C22_BatchRequestsKeepSelection ==
  \A op \in Calls :
    (op.kind = "gen" /\ op.bid > 0) =>
      /\ Request(op).tone = batchSelected[op.bid].tone
      /\ Request(op).language = batchSelected[op.bid].language
      /\ Request(op).businessProfile = batchSelected[op.bid].businessProfile
      /\ op.k \in 1..Len(op.snap)
      /\ op.id = op.snap[op.k].id
      /\ HasItem(op.id) =>
           /\ Request(op).review.reviewerName = Item(op.id).reviewerName
           /\ Request(op).review.rating = Item(op.id).rating
           /\ Request(op).review.content = Item(op.id).content

\* the second request of a batch is in flight with the tone and language
\* selected when the batch was started, both changed since
C22_Witness ==
  /\ lastEvent.type = "batchNext" /\ lastEvent.k = 2
  /\ \E op \in Calls :
       /\ op.kind = "gen" /\ op.bid = lastEvent.bid /\ op.k = 2
       /\ Request(op).tone = batchSelected[op.bid].tone
       /\ Request(op).tone # tone
       /\ Request(op).language # language

\* the loop of autoGenerateAll call b has a call in flight or is about to go on
BatchRunning(b) ==
  \/ \E op \in Calls : op.bid = b
  \/ cont.active /\ cont.bid = b

\* C23: a running draftAll batch ends; it makes one generation call per
\* snapshot review, in snapshot order, each started once (the first when the
\* batch starts, call k+1 right after the answer to call k), and ends right
\* after the answer to the last one with processingId null; over an empty
\* snapshot it ends at once and starts no call
C23_DraftAllTerminates ==
  /\ \A b \in 1..MaxInflight : BatchRunning(b) ~> ~BatchRunning(b)
  /\ [] ( (lastEvent.type = "batchDone" /\ lastEvent.snap # <<>>) =>
            /\ lastEvent.k = Len(lastEvent.snap)
            /\ ~BatchRunning(lastEvent.bid)
            /\ processingId = Null )
  /\ [][ /\ \A op \in BagToSet(inflight') :
              (op.bid > 0 /\ CopiesIn(op, inflight') > CopiesIn(op, inflight)) =>
                /\ CopiesIn(op, inflight') = 1
                /\ lastEvent'.bid = op.bid /\ lastEvent'.k = op.k
                /\ \/ /\ lastEvent'.type = "batchStart"
                      /\ op.k = 1
                      /\ ~BatchRunning(op.bid)
                   \/ /\ lastEvent'.type = "batchNext"
                      /\ BatchAnswer(lastEvent) /\ lastEvent.bid = op.bid
                      /\ lastEvent.snap = op.snap
                      /\ op.k = lastEvent.k + 1
         /\ (lastEvent'.type = "batchDone" /\ lastEvent'.snap # <<>>) =>
              /\ BatchAnswer(lastEvent)
              /\ lastEvent.bid = lastEvent'.bid
              /\ lastEvent.k = Len(lastEvent'.snap)
         /\ (lastEvent'.type = "batchDone" /\ lastEvent'.snap = <<>>) =>
              inflight' = inflight ]_vars

\* a batch over two reviews has ended after its second call was answered, the
\* first call having failed; nothing is in flight and processingId is null
C23_Witness ==
  /\ lastEvent.type = "batchDone"
  /\ Len(lastEvent.snap) = 2 /\ lastEvent.k = 2
  /\ inflight = EmptyBag
  /\ processingId = Null
  /\ Item(lastEvent.snap[1].id).status = "pending"

\* C24: once the mount effect of the App has run, localStorage holds a
\* businessProfile entry exactly when a profile is set, the entry is the JSON
\* of that profile, and after handleDisconnect neither holds a profile
C24_StoredProfileMatchesState ==
  lastEvent.type # "appMount" =>
    /\ localStorage.present <=> businessProfile # Null
    /\ businessProfile # Null => localStorage = JsonStringify(businessProfile)
    /\ lastEvent.type = "disconnect" =>
         businessProfile = Null /\ localStorage = NoEntry

====
